---- MODULE Spec2Model ----
(***************************************************************************)
(* State-machine model of lavalink/NodeManager.py: the NodeManager         *)
(* registry (online / offline node lists, region routing table,            *)
(* round-robin cursor, readiness signals, node event tasks), the node      *)
(* selection operations get_rest and get_by_region, and                    *)
(* LavalinkNode.manage_failover with its suspension points.                *)
(*                                                                         *)
(* Python lists are sequences; Python indices are 0-based and are kept     *)
(* 0-based in rr_pos and default_node_index (sequence access adds 1).      *)
(* Node objects are identified by the order in which add() created them.   *)
(*                                                                         *)
(* Specifications: Spec (the registry), SpecRest (the registry with        *)
(* get_rest), SpecSessions (the registry with get_by_region, playback and  *)
(* manage_failover), SpecRR (get_rest on a stable online list).            *)
(***************************************************************************)
EXTENDS Integers, Sequences, FiniteSets, TLC

\* ------------------------------------------------------------- bounds
MaxNodes == 3
MaxEvents == 1
MaxDefaultIndex == 1
MaxGuilds == 2
MaxPlayers == 2
MaxPicks == 4
\* nodes explored together with the selection operations and the sessions
MaxBusyNodes == 2
\* manage_failover coroutines suspended at the same time, and guilds,
\* explored together with the registry
MaxFailovers == 1
MaxBusyGuilds == 1
\* manage_failover coroutines that exist at the same time
MaxTasks == 2
\* the tracks and the positions players have played
MaxTracks == 2
MaxPosition == 1
\* the callables offered to register_node_hook
MaxHooks == 2

NodeIds == 1..MaxNodes
GuildIds == 1..MaxGuilds
PlayerIds == 1..MaxPlayers
HookIds == 1..MaxHooks
TaskIds == 1..MaxTasks
TrackIds == 1..MaxTracks
Positions == 0..MaxPosition

\* Python's None (no node, no player)
None == 0

\* three of the region names of DISCORD_REGIONS
DISCORD_REGIONS == {"eu-west", "us-east", "japan"}

\* the region sets nodes are created with (Regions instances: validated,
\* never empty because an empty list falls back to the whole catalogue)
RegionChoices == {{"eu-west"}, {"us-east"}, {"eu-west", "us-east"}}

VARIABLES
    nodes,               \* NodeManager.nodes: list of online nodes
    offline_nodes,       \* NodeManager.offline_nodes
    nodes_by_region,     \* NodeManager.nodes_by_region: region -> node or None
    rr_pos,              \* NodeManager._rr_pos
    round_robin,         \* NodeManager.round_robin
    default_node_index,  \* NodeManager.default_node_index
    ready,               \* NodeManager.ready (asyncio.Event)
    node_ready,          \* LavalinkNode.ready, per node
    regions,             \* LavalinkNode.regions, per node
    events,              \* created, not yet started _dispatch_node_event tasks
    players,             \* node.players._players: per node, guild id -> player
    pnode,               \* player.node, per player object (None: not created)
    playing,             \* player.is_playing, per player object
    previous,            \* player.previous, per player object
    prev_position,       \* player._prev_position, per player object
    plog,                \* calls failover made on the player, latest migration
    fo,                  \* the manage_failover coroutines
    hooks,               \* NodeManager._hooks
    dp,                  \* the running _dispatch_node_event coroutine
    seen,                \* hooks invoked by the latest dispatch, in order
    kept,                \* hooks registered throughout the latest dispatch
    quiet,               \* _hooks not modified during the latest dispatch
    call,                \* the last step taken: operation, argument, outcome
    picks                \* nodes returned by the observed get_rest calls

registry == <<nodes, offline_nodes, nodes_by_region, rr_pos, ready, node_ready,
              regions, events>>
config == <<round_robin, default_node_index>>
tracks == <<previous, prev_position>>
sessions == <<players, pnode, playing, previous, prev_position, plog, fo>>
hooking == <<hooks, dp, seen, kept, quiet>>
vars == <<nodes, offline_nodes, nodes_by_region, rr_pos, round_robin,
          default_node_index, ready, node_ready, regions, events, players,
          pnode, playing, previous, prev_position, plog, fo, hooks, dp, seen, kept, quiet, call, picks>>

\* ------------------------------------------------------- list helpers
\* x in s
InList(x, s) == \E i \in 1..Len(s) : s[i] = x

\* s.index(x), 1-based
IndexOf(s, x) == CHOOSE i \in 1..Len(s) : s[i] = x /\ \A j \in 1..(i - 1) : s[j] # x

\* what is left of s after s.pop(i), i 1-based
PopKeep(s, i) == s

Pop(s, i) == SubSeq(s, 1, i - 1) \o SubSeq(s, i + 1, Len(s))

Count(x, s) == Cardinality({i \in 1..Len(s) : s[i] = x})

Min(a, b) == IF a < b THEN a ELSE b

\* the nodes add() has created so far
Created == 1..(Len(nodes) + Len(offline_nodes))

\* no manage_failover coroutine
IdleTask == [pc |-> "idle", node |-> None, new_node |-> None, keys |-> <<>>,
             g |-> None, player |-> None, is_playing |-> FALSE,
             current_track |-> None, current_posit |-> 0]

\* a call on a player, as the failover log records it
Op(op, arg) == [op |-> op, arg |-> arg]

\* no _dispatch_node_event coroutine is running
IdleDispatch == [pc |-> "idle", event |-> None, i |-> 0, hook |-> None]

\* op(arg) returned ret (exc = "") or raised exc
Step(op, arg, ret, exc) == [op |-> op, arg |-> arg, ret |-> ret, exc |-> exc]

\* ------------------------------------------------------------- Init
\* NodeManager.__init__: empty lists and table, cursor 0, signals clear
Init ==
    /\ nodes = <<>>
    /\ offline_nodes = <<>>
    /\ nodes_by_region = [r \in DISCORD_REGIONS |-> None]
    /\ rr_pos = 0
    /\ round_robin \in BOOLEAN
    /\ default_node_index \in 0..MaxDefaultIndex
    /\ ready = FALSE
    /\ node_ready = [n \in NodeIds |-> FALSE]
    /\ regions = [n \in NodeIds |-> {}]
    /\ events = <<>>
    /\ players = [n \in NodeIds |-> [g \in GuildIds |-> None]]
    /\ pnode = [p \in PlayerIds |-> None]
    /\ playing = [p \in PlayerIds |-> FALSE]
    /\ previous = [p \in PlayerIds |-> None]
    /\ prev_position = [p \in PlayerIds |-> 0]
    /\ plog = [p \in PlayerIds |-> <<>>]
    /\ fo = [t \in TaskIds |-> IdleTask]
    /\ hooks = <<>>
    /\ dp = IdleDispatch
    /\ seen = <<>>
    /\ kept = {}
    /\ quiet = TRUE
    /\ call = Step("__init__", None, None, "")
    /\ picks = <<>>

\* ------------------------------------------------------------ add
\* NodeManager.add: a new LavalinkNode (ready clear, no players) appended
\* to offline_nodes
add(rs) ==
    /\ Len(nodes) + Len(offline_nodes) < MaxNodes
    /\ LET node == Len(nodes) + Len(offline_nodes) + 1 IN
        /\ offline_nodes' = Append(offline_nodes, node)
        /\ regions' = [regions EXCEPT ![node] = rs]
        /\ call' = Step("add", node, None, "")
    /\ UNCHANGED <<nodes, nodes_by_region, rr_pos, ready, node_ready, events>>
    /\ UNCHANGED <<hooking, config, sessions, picks>>

\* --------------------------------------------------- on_node_ready
\* the routing table after `for region in node.regions: update({region: node})`
RouteSkip(table, rs, node) == table

Route(table, rs, node) ==
    [r \in DISCORD_REGIONS |-> IF r \in rs THEN node ELSE table[r]]

NodeReadyEvent(node) == [type |-> "NodeReady", node |-> node]

NodeDisabledEvent(node) == [type |-> "NodeDisabled", node |-> node]

\* loop.create_task(self._dispatch_node_event(event))
create_task(event) == events' = Append(events, event)

\* on_node_ready without its early return: an online node is routed and
\* announced again
on_node_ready_again(node) ==
    /\ call' = Step("on_node_ready", node, None, "")
    /\ UNCHANGED <<hooking, config, sessions, picks, rr_pos, regions>>
    /\ Len(events) < MaxEvents
    /\ IF ~InList(node, offline_nodes)
       THEN UNCHANGED <<nodes, offline_nodes>>
       ELSE LET node_index == IndexOf(offline_nodes, node) IN
                /\ nodes' = Append(nodes, offline_nodes[node_index])
                /\ offline_nodes' = Pop(offline_nodes, node_index)
    /\ node_ready' = [node_ready EXCEPT ![node] = TRUE]
    /\ ready' = TRUE
    /\ nodes_by_region' = Route(nodes_by_region, regions[node], node)
    /\ create_task(NodeReadyEvent(node))

on_node_ready(node) ==
    /\ call' = Step("on_node_ready", node, None, "")
    /\ UNCHANGED <<hooking, config, sessions, picks, rr_pos, regions>>
    /\ IF ~InList(node, offline_nodes)
       THEN UNCHANGED <<nodes, offline_nodes, nodes_by_region, ready,
                        node_ready, events>>
       ELSE /\ Len(events) < MaxEvents
            /\ LET node_index == IndexOf(offline_nodes, node) IN
                /\ nodes' = Append(nodes, offline_nodes[node_index])
                /\ offline_nodes' = Pop(offline_nodes, node_index)
            /\ node_ready' = [node_ready EXCEPT ![node] = TRUE]
            /\ ready' = TRUE
            /\ nodes_by_region' = Route(nodes_by_region, regions[node], node)
            /\ create_task(NodeReadyEvent(node))

\* ------------------------------------------------ on_node_disabled
\* the cluster signal after `if not self.nodes: self.ready.clear()`
ReadyKept(rest) == ready

ClearIfEmpty(rest) == IF rest = <<>> THEN FALSE ELSE ready

\* on_node_disabled deleting the routing entries of the last online node
on_node_disabled_unroute(node) ==
    /\ call' = Step("on_node_disabled", node, None, "")
    /\ UNCHANGED <<hooking, config, sessions, picks, rr_pos, regions>>
    /\ IF ~InList(node, nodes)
       THEN UNCHANGED <<nodes, offline_nodes, nodes_by_region, ready,
                        node_ready, events>>
       ELSE LET node_index == IndexOf(nodes, node)
                rest == Pop(nodes, node_index)
            IN  /\ offline_nodes' = Append(offline_nodes, nodes[node_index])
                /\ nodes' = rest
                /\ node_ready' = [node_ready EXCEPT ![node] = FALSE]
                /\ ready' = ClearIfEmpty(rest)
                /\ IF rest = <<>>
                   THEN /\ nodes_by_region' =
                               Route(nodes_by_region, regions[node], None)
                        /\ UNCHANGED events
                   ELSE /\ Len(events) < MaxEvents
                        /\ nodes_by_region' =
                               Route(nodes_by_region, regions[node], rest[1])
                        /\ create_task(NodeDisabledEvent(node))

on_node_disabled(node) ==
    /\ call' = Step("on_node_disabled", node, None, "")
    /\ UNCHANGED <<hooking, config, sessions, picks, rr_pos, regions>>
    /\ IF ~InList(node, nodes)
       THEN UNCHANGED <<nodes, offline_nodes, nodes_by_region, ready,
                        node_ready, events>>
       ELSE LET node_index == IndexOf(nodes, node)
                rest == Pop(nodes, node_index)
            IN  /\ offline_nodes' = Append(offline_nodes, nodes[node_index])
                /\ nodes' = rest
                /\ node_ready' = [node_ready EXCEPT ![node] = FALSE]
                /\ ready' = ClearIfEmpty(rest)
                /\ IF rest = <<>>
                   THEN \* the only node of the cluster: warning, return
                        UNCHANGED <<nodes_by_region, events>>
                   ELSE /\ Len(events) < MaxEvents
                        /\ nodes_by_region' =
                               Route(nodes_by_region, regions[node], rest[1])
                        /\ create_task(NodeDisabledEvent(node))

\* -------------------------------------------- _dispatch_node_event
\* a hook of an even id returns, a hook of an odd id raises on every call
Raises(hook) == hook % 2 = 1

\* `for hook in self._hooks` from the head of an iteration: the list
\* iterator reads the live list at its index; the next hook is invoked
\* (called, or awaited when it is a coroutine function), or the loop and
\* the coroutine end
DispatchLoop(event, i, log) ==
    IF i < Len(hooks)
    THEN /\ dp' = [pc |-> "hook", event |-> event, i |-> i + 1,
                   hook |-> hooks[i + 1]]
         /\ seen' = Append(log, hooks[i + 1])
    ELSE /\ dp' = IdleDispatch
         /\ seen' = log

\* a created dispatch task starts and runs into its first hook; one
\* dispatch task is followed at a time
dispatch_node_event ==
    /\ events # <<>>
    /\ dp.pc = "idle"
    /\ events' = Tail(events)
    /\ call' = Step("_dispatch_node_event", Head(events).node, None, "")
    /\ kept' = {hooks[j] : j \in 1..Len(hooks)}
    /\ quiet' = TRUE
    /\ DispatchLoop(Head(events), 0, <<>>)
    /\ UNCHANGED <<nodes, offline_nodes, nodes_by_region, rr_pos, ready,
                   node_ready, regions, hooks>>
    /\ UNCHANGED <<config, sessions, picks>>

\* the invoked hook ends and its exception leaves _dispatch_node_event
hook_done_uncaught ==
    /\ dp.pc = "hook"
    /\ IF Raises(dp.hook)
       THEN /\ call' = Step("hook_done", dp.hook, None, "Exception")
            /\ dp' = IdleDispatch
            /\ UNCHANGED seen
       ELSE /\ call' = Step("hook_done", dp.hook, None, "")
            /\ DispatchLoop(dp.event, dp.i, seen)
    /\ UNCHANGED <<registry, config, sessions, picks, hooks, kept, quiet>>

\* the invoked hook ends, by returning or by raising; `except Exception`
\* logs what it raised and the loop goes on
hook_done ==
    /\ dp.pc = "hook"
    /\ call' = Step("hook_done", dp.hook, None, "")
    /\ DispatchLoop(dp.event, dp.i, seen)
    /\ UNCHANGED <<registry, config, sessions, picks, hooks, kept, quiet>>

\* ------------------------------ register_node_hook, unregister_node_hook
register_node_hook(func) ==
    /\ call' = Step("register_node_hook", func, None, "")
    /\ IF ~InList(func, hooks)
       THEN /\ hooks' = Append(hooks, func)
            /\ quiet' = (quiet /\ dp.pc = "idle")
       ELSE UNCHANGED <<hooks, quiet>>
    /\ UNCHANGED <<registry, config, sessions, picks, dp, seen, kept>>

unregister_node_hook(func) ==
    /\ call' = Step("unregister_node_hook", func, None, "")
    /\ IF InList(func, hooks)
       THEN /\ hooks' = Pop(hooks, IndexOf(hooks, func))
            /\ quiet' = (quiet /\ dp.pc = "idle")
            /\ kept' = IF dp.pc = "idle" THEN kept ELSE kept \ {func}
       ELSE UNCHANGED <<hooks, quiet, kept>>
    /\ UNCHANGED <<registry, config, sessions, picks, dp, seen>>

\* ---------------------------------------------------------- get_rest
\* the cursor after `_rr_pos += 1; if _rr_pos > len(nodes): _rr_pos = 0`
Advance(pos, len) == IF pos + 1 > len THEN 0 ELSE pos + 1

\* get_rest ignoring default_node_index
RestNodeFirst ==
    IF round_robin THEN nodes[Min(rr_pos, Len(nodes) - 1) + 1] ELSE nodes[1]

\* the node get_rest returns when nodes is not empty
RestNode ==
    LET node0 == IF default_node_index < Len(nodes)
                 THEN nodes[default_node_index + 1] ELSE None
        node1 == IF node0 = None /\ round_robin = FALSE THEN nodes[1] ELSE node0
    IN  IF round_robin THEN nodes[Min(rr_pos, Len(nodes) - 1) + 1] ELSE node1

get_rest_unchecked ==
    /\ UNCHANGED <<nodes, offline_nodes, nodes_by_region, ready, node_ready,
                   regions, events>>
    /\ UNCHANGED <<hooking, config, sessions>>
    /\ IF nodes = <<>>
       THEN /\ call' = Step("get_rest", None, None, "IndexError")
            /\ rr_pos' = IF round_robin THEN rr_pos + 1 ELSE rr_pos
       ELSE /\ call' = Step("get_rest", None, RestNode, "")
            /\ rr_pos' = IF round_robin THEN Advance(rr_pos, Len(nodes)) ELSE rr_pos

get_rest ==
    /\ UNCHANGED <<nodes, offline_nodes, nodes_by_region, ready, node_ready,
                   regions, events>>
    /\ UNCHANGED <<hooking, config, sessions>>
    /\ IF nodes = <<>>
       THEN /\ call' = Step("get_rest", None, None, "NoNodesAvailable")
            /\ UNCHANGED rr_pos
       ELSE /\ call' = Step("get_rest", None, RestNode, "")
            /\ rr_pos' = IF round_robin THEN Advance(rr_pos, Len(nodes)) ELSE rr_pos

\* ----------------------------------------------------- get_by_region
\* the player objects created so far
CreatedPlayers == {p \in PlayerIds : pnode[p] # None}

\* PlayerManager.get(guild_id) of `node`: the player the node holds for the
\* guild, created (not playing, bound to the node) when there is none
NewPlayer == Cardinality(CreatedPlayers) + 1

PlayersGet(node, gid) ==
    IF players[node][gid] # None
    THEN /\ call' = Step("get_by_region", gid, players[node][gid], "")
         /\ UNCHANGED <<players, pnode, playing>>
    ELSE /\ NewPlayer \in PlayerIds
         /\ players' = [players EXCEPT ![node][gid] = NewPlayer]
         /\ pnode' = [pnode EXCEPT ![NewPlayer] = node]
         /\ playing' = [playing EXCEPT ![NewPlayer] = FALSE]
         /\ call' = Step("get_by_region", gid, NewPlayer, "")

\* get_by_region(guild) with guild.id = gid and guild.region = region
get_by_region(gid, region) ==
    /\ UNCHANGED <<registry, hooking, config, tracks, plog, fo, picks>>
    /\ LET node == nodes_by_region[region] IN
        IF node = None
        THEN IF nodes = <<>>
             THEN \* self.nodes[0] of an empty list
                  /\ call' = Step("get_by_region", gid, None, "IndexError")
                  /\ UNCHANGED <<players, pnode, playing>>
             ELSE PlayersGet(nodes[1], gid)
        ELSE PlayersGet(node, gid)

\* the session manager's play(): the player starts playing
player_play(p) ==
    /\ p \in CreatedPlayers
    /\ ~playing[p]
    /\ playing' = [playing EXCEPT ![p] = TRUE]
    /\ call' = Step("play", p, None, "")
    /\ UNCHANGED <<registry, hooking, config, players, pnode, tracks, plog,
                   fo, picks>>

\* --------------------------------------------------- manage_failover
\* list(self.players._players): the guild ids the node holds, as a list
RECURSIVE KeyList(_, _)
KeyList(node, from) ==
    IF from > MaxGuilds THEN <<>>
    ELSE IF players[node][from] # None
         THEN <<from>> \o KeyList(node, from + 1)
         ELSE KeyList(node, from + 1)

\* the for loop of coroutine t from the head of an iteration to its first
\* await (ws.voice_state), or to the end of the coroutine
FailoverLoop(op, t, node, new_node, keys) ==
    IF keys = <<>>
    THEN /\ call' = Step(op, node, None, "")
         /\ fo' = [fo EXCEPT ![t] = IdleTask]
         /\ UNCHANGED <<players, pnode, plog>>
    ELSE LET g == Head(keys)
             new_player == players[node][g]
         IN  IF new_player = None
             THEN \* _players.pop(g) of a missing key: the coroutine ends
                  /\ call' = Step(op, node, None, "KeyError")
                  /\ fo' = [fo EXCEPT ![t] = IdleTask]
                  /\ UNCHANGED <<players, pnode, plog>>
             ELSE /\ call' = Step(op, node, None, "")
                  /\ players' = [players EXCEPT ![node][g] = None,
                                                ![new_node][g] = new_player]
                  /\ pnode' = [pnode EXCEPT ![new_player] = new_node]
                  /\ plog' = [plog EXCEPT ![new_player] =
                                 <<Op("voice_state", None)>>]
                  /\ fo' = [fo EXCEPT ![t] =
                               [pc |-> "voice_state", node |-> node,
                                new_node |-> new_node,
                                keys |-> Tail(keys), g |-> g,
                                player |-> new_player,
                                is_playing |-> playing[new_player],
                                current_track |-> previous[new_player],
                                current_posit |-> prev_position[new_player]]]

\* the manage_failover coroutines suspended at an await
Running == {t \in TaskIds : fo[t].pc \in {"voice_state", "connect", "play", "seek"}}

\* node.manage_failover() is called and runs to its first await
manage_failover(node) ==
    /\ Running # TaskIds
    /\ UNCHANGED <<registry, hooking, config, playing, tracks, picks>>
    /\ LET t == CHOOSE u \in TaskIds \ Running :
                    \A v \in TaskIds \ Running : u <= v
       IN  IF nodes # <<>>
           THEN FailoverLoop("manage_failover", t, node, nodes[1],
                             KeyList(node, 1))
           ELSE /\ call' = Step("manage_failover", node, None, "")
                /\ fo' = [fo EXCEPT ![t] = IdleTask]
                /\ UNCHANGED <<players, pnode, plog>>

\* manage_failover seeking before it queues the track and plays
failover_resume_unordered(t) ==
    /\ t \in Running
    /\ UNCHANGED <<registry, hooking, config, playing, tracks, picks>>
    /\ LET c == fo[t] IN
        CASE c.pc = "voice_state" /\ c.is_playing ->
                /\ call' = Step("failover_resume", c.node, None, "")
                /\ fo' = [fo EXCEPT ![t].pc = "connect"]
                /\ plog' = [plog EXCEPT ![c.player] =
                               Append(@, Op("connect", None))]
                /\ UNCHANGED <<players, pnode>>
          [] c.pc = "voice_state" /\ ~c.is_playing ->
                FailoverLoop("failover_resume", t, c.node, c.new_node, c.keys)
          [] c.pc = "connect" ->
                /\ call' = Step("failover_resume", c.node, None, "")
                /\ fo' = [fo EXCEPT ![t].pc = "play"]
                /\ plog' = [plog EXCEPT ![c.player] =
                               Append(@, Op("seek", c.current_posit))]
                /\ UNCHANGED <<players, pnode>>
          [] c.pc = "play" ->
                /\ call' = Step("failover_resume", c.node, None, "")
                /\ fo' = [fo EXCEPT ![t].pc = "seek"]
                /\ plog' = [plog EXCEPT ![c.player] =
                               @ \o <<Op("insert", c.current_track),
                                      Op("play", None)>>]
                /\ UNCHANGED <<players, pnode>>
          [] c.pc = "seek" ->
                FailoverLoop("failover_resume", t, c.node, c.new_node, c.keys)

\* the awaited call of the suspended coroutine t returns and the coroutine
\* runs to its next await
failover_resume(t) ==
    /\ t \in Running
    /\ UNCHANGED <<registry, hooking, config, playing, tracks, picks>>
    /\ LET c == fo[t] IN
        CASE c.pc = "voice_state" /\ c.is_playing ->
                /\ call' = Step("failover_resume", c.node, None, "")
                /\ fo' = [fo EXCEPT ![t].pc = "connect"]
                /\ plog' = [plog EXCEPT ![c.player] =
                               Append(@, Op("connect", None))]
                /\ UNCHANGED <<players, pnode>>
          [] c.pc = "voice_state" /\ ~c.is_playing ->
                FailoverLoop("failover_resume", t, c.node, c.new_node, c.keys)
          [] c.pc = "connect" ->
                \* queue.insert(0, current_track), then play()
                /\ call' = Step("failover_resume", c.node, None, "")
                /\ fo' = [fo EXCEPT ![t].pc = "play"]
                /\ plog' = [plog EXCEPT ![c.player] =
                               @ \o <<Op("insert", c.current_track),
                                      Op("play", None)>>]
                /\ UNCHANGED <<players, pnode>>
          [] c.pc = "play" ->
                /\ call' = Step("failover_resume", c.node, None, "")
                /\ fo' = [fo EXCEPT ![t].pc = "seek"]
                /\ plog' = [plog EXCEPT ![c.player] =
                               Append(@, Op("seek", c.current_posit))]
                /\ UNCHANGED <<players, pnode>>
          [] c.pc = "seek" ->
                FailoverLoop("failover_resume", t, c.node, c.new_node, c.keys)

\* the awaited call of the suspended coroutine t raises: nothing in
\* manage_failover catches it and the coroutine ends with the exception
failover_fault(t) ==
    /\ t \in Running
    /\ call' = Step("failover_fault", fo[t].node, None, "Exception")
    /\ fo' = [fo EXCEPT ![t] = IdleTask]
    /\ UNCHANGED <<registry, hooking, config, players, pnode, playing, tracks,
                   plog, picks>>

\* --------------------------------------------------- specifications
\* a manager constructed with the default configuration; the membership
\* operations, get_by_region and manage_failover do not read the
\* configuration
InitDefault == Init /\ round_robin = FALSE /\ default_node_index = 0

\* add while fewer than `most` nodes exist
add_upto(most) ==
    \E rs \in RegionChoices :
        Len(nodes) + Len(offline_nodes) < most /\ add(rs)

\* the registry: membership, routing table, readiness, event tasks
Next ==
    \/ add_upto(MaxNodes)
    \/ \E node \in Created : on_node_ready(node)
    \/ \E node \in Created : on_node_disabled(node)
    \/ dispatch_node_event

Spec == InitDefault /\ [][Next]_vars

\* the registry with node selection for REST, under every configuration
NextRest ==
    \/ add_upto(MaxBusyNodes)
    \/ \E node \in Created : on_node_ready(node)
    \/ \E node \in Created : on_node_disabled(node)
    \/ dispatch_node_event
    \/ get_rest /\ UNCHANGED picks

SpecRest == Init /\ [][NextRest]_vars

\* the registry with the sessions of the nodes: selection by region,
\* playback and failover
NextSessions ==
    \/ add_upto(MaxBusyNodes)
    \/ \E node \in Created : on_node_ready(node)
    \/ \E node \in Created : on_node_disabled(node)
    \/ dispatch_node_event
    \/ \E gid \in 1..MaxBusyGuilds, region \in DISCORD_REGIONS :
           get_by_region(gid, region)
    \/ \E p \in PlayerIds : player_play(p)
    \/ \E node \in Created :
           Cardinality(Running) < MaxFailovers /\ manage_failover(node)
    \/ \E t \in TaskIds : failover_resume(t)

SpecSessions == InitDefault /\ [][NextSessions]_vars

\* a manager to which two nodes were added, one per region, with the
\* default configuration
InitHooks ==
    /\ nodes = <<>>
    /\ offline_nodes = <<1, 2>>
    /\ nodes_by_region = [r \in DISCORD_REGIONS |-> None]
    /\ rr_pos = 0
    /\ round_robin = FALSE
    /\ default_node_index = 0
    /\ ready = FALSE
    /\ node_ready = [n \in NodeIds |-> FALSE]
    /\ regions = [n \in NodeIds |-> IF n = 1 THEN {"eu-west"}
                                    ELSE IF n = 2 THEN {"us-east"} ELSE {}]
    /\ events = <<>>
    /\ players = [n \in NodeIds |-> [g \in GuildIds |-> None]]
    /\ pnode = [p \in PlayerIds |-> None]
    /\ playing = [p \in PlayerIds |-> FALSE]
    /\ previous = [p \in PlayerIds |-> None]
    /\ prev_position = [p \in PlayerIds |-> 0]
    /\ plog = [p \in PlayerIds |-> <<>>]
    /\ fo = [t \in TaskIds |-> IdleTask]
    /\ hooks = <<>>
    /\ dp = IdleDispatch
    /\ seen = <<>>
    /\ kept = {}
    /\ quiet = TRUE
    /\ call = Step("add", 2, None, "")
    /\ picks = <<>>

\* the membership transitions of the two nodes, the hooks and the dispatch
\* of the events to them
NextHooks ==
    \/ \E node \in Created : on_node_ready(node)
    \/ \E node \in Created : on_node_disabled(node)
    \/ dispatch_node_event
    \/ hook_done
    \/ \E func \in HookIds : register_node_hook(func)
    \/ \E func \in HookIds : unregister_node_hook(func)

SpecHooks == InitHooks /\ [][NextHooks]_vars

\* the session node 1 holds for guild g when failover is studied: player g
Held(g) == IF g \in PlayerIds THEN g ELSE None

\* a manager whose two nodes, one per region, were added and promoted in
\* either order, and whose node 1 holds the sessions of the guilds, each
\* playing or idle, with its track and position
InitMigrate ==
    /\ nodes \in {<<1, 2>>, <<2, 1>>}
    /\ offline_nodes = <<>>
    /\ nodes_by_region = [r \in DISCORD_REGIONS |->
                             IF r = "eu-west" THEN 1
                             ELSE IF r = "us-east" THEN 2 ELSE None]
    /\ rr_pos = 0
    /\ round_robin = FALSE
    /\ default_node_index = 0
    /\ ready = TRUE
    /\ node_ready = [n \in NodeIds |-> n <= 2]
    /\ regions = [n \in NodeIds |-> IF n = 1 THEN {"eu-west"}
                                    ELSE IF n = 2 THEN {"us-east"} ELSE {}]
    /\ events = <<>>
    /\ players = [n \in NodeIds |->
                     [g \in GuildIds |-> IF n = 1 THEN Held(g) ELSE None]]
    /\ pnode = [p \in PlayerIds |-> IF p \in GuildIds THEN 1 ELSE None]
    /\ playing \in [PlayerIds -> BOOLEAN]
    /\ previous \in [PlayerIds -> TrackIds \cup {None}]
    /\ prev_position \in [PlayerIds -> Positions]
    /\ \A p \in PlayerIds :
          IF p \in GuildIds THEN previous[p] # None
          ELSE ~playing[p] /\ previous[p] = None /\ prev_position[p] = 0
    /\ plog = [p \in PlayerIds |-> <<>>]
    /\ fo = [t \in TaskIds |-> IdleTask]
    /\ hooks = <<>>
    /\ dp = IdleDispatch
    /\ seen = <<>>
    /\ kept = {}
    /\ quiet = TRUE
    /\ call = Step("_dispatch_node_event", nodes[2], None, "")
    /\ picks = <<>>

\* demotions, and the failover of a demoted node running alone and without
\* faults
NextMigrate ==
    \/ \E node \in Created : on_node_disabled(node)
    \/ dispatch_node_event
    \/ \E node \in Created :
           ~InList(node, nodes) /\ Running = {} /\ manage_failover(node)
    \/ \E t \in TaskIds : failover_resume(t)

SpecMigrate == InitMigrate /\ [][NextMigrate]_vars

\* the same manager, every session at the start of its first track
InitFailover ==
    /\ InitMigrate
    /\ \A p \in PlayerIds :
          prev_position[p] = 0 /\ previous[p] \in {None, 1}

\* membership transitions and the failover of any node, online or not, its
\* awaited calls returning or raising
NextFailover ==
    \/ \E node \in Created : on_node_ready(node)
    \/ \E node \in Created : on_node_disabled(node)
    \/ dispatch_node_event
    \/ \E node \in Created :
           Cardinality(Running) < MaxFailovers /\ manage_failover(node)
    \/ \E t \in TaskIds : failover_resume(t)
    \/ \E t \in TaskIds : failover_fault(t)

SpecFailover == InitFailover /\ [][NextFailover]_vars

\* demotions and failovers started while others are suspended
NextTwice ==
    \/ \E node \in Created : on_node_disabled(node)
    \/ \E node \in Created : manage_failover(node)
    \/ \E t \in TaskIds : failover_resume(t)

SpecTwice == InitFailover /\ [][NextTwice]_vars

\* get_rest observed on a manager whose N nodes were added and promoted
\* (in any order, each serving every modelled region, their NodeReady
\* events dispatched) and whose membership then stays as it is
InitRR ==
    \E n \in 1..MaxNodes : \E order \in Permutations(1..n) :
        /\ nodes = order
        /\ offline_nodes = <<>>
        /\ nodes_by_region = [r \in DISCORD_REGIONS |->
                                 IF r = "japan" THEN None ELSE order[n]]
        /\ rr_pos = 0
        /\ round_robin \in BOOLEAN
        /\ default_node_index \in 0..MaxDefaultIndex
        /\ ready = TRUE
        /\ node_ready = [m \in NodeIds |-> m <= n]
        /\ regions = [m \in NodeIds |->
                         IF m <= n THEN {"eu-west", "us-east"} ELSE {}]
        /\ events = <<>>
        /\ players = [m \in NodeIds |-> [g \in GuildIds |-> None]]
        /\ pnode = [p \in PlayerIds |-> None]
        /\ playing = [p \in PlayerIds |-> FALSE]
        /\ previous = [p \in PlayerIds |-> None]
        /\ prev_position = [p \in PlayerIds |-> 0]
        /\ plog = [p \in PlayerIds |-> <<>>]
        /\ fo = [t \in TaskIds |-> IdleTask]
        /\ hooks = <<>>
        /\ dp = IdleDispatch
        /\ seen = <<>>
        /\ kept = {}
        /\ quiet = TRUE
        /\ call = Step("_dispatch_node_event", order[n], None, "")
        /\ picks = <<>>

observed_get_rest ==
    /\ Len(picks) < MaxPicks
    /\ get_rest
    /\ picks' = Append(picks, call'.ret)

NextRR == observed_get_rest

SpecRR == InitRR /\ [][NextRR]_vars

\* =============================================================== claims

\* C1 (Spec): in every reachable state every node created by add is in
\* exactly one of nodes and offline_nodes, exactly once, and no other node
\* is in either list.
C1_ExactlyOneList ==
    \A n \in NodeIds :
        Count(n, nodes) + Count(n, offline_nodes) = (IF n \in Created THEN 1 ELSE 0)

\* a node was promoted and then demoted while another node stayed online
C1_Witness ==
    /\ call.op = "on_node_disabled"
    /\ events = <<NodeDisabledEvent(call.arg)>>
    /\ InList(call.arg, offline_nodes)
    /\ nodes # <<>>

\* C2 (Spec): in every reachable state every entry of nodes_by_region maps
\* its region to a node that is in the online list nodes.
C2_RoutedNodesOnline ==
    \A r \in DISCORD_REGIONS :
        nodes_by_region[r] # None => InList(nodes_by_region[r], nodes)

\* C3 (SpecSessions): at every instant each guild id is a key of the
\* ownership map of at most one node.
C3_SingleOwner ==
    \A g \in GuildIds : Cardinality({n \in NodeIds : players[n][g] # None}) <= 1

\* C4 (SpecRR): with round-robin enabled and N online nodes, the first N
\* get_rest calls return nodes[0..N-1] in order, after the N-th call the
\* cursor is 0, and the (N+1)-th call returns nodes[0].
C4_RoundRobinCycle ==
    round_robin =>
        /\ \A i \in 1..Min(Len(picks), Len(nodes)) : picks[i] = nodes[i]
        /\ Len(picks) = Len(nodes) => rr_pos = 0
        /\ Len(picks) > Len(nodes) => picks[Len(nodes) + 1] = nodes[1]

\* C5 (SpecRest): in every reachable state 0 <= _rr_pos <= len(nodes).
C5_CursorInRange == 0 <= rr_pos /\ rr_pos <= Len(nodes)

\* C6 (SpecRest): get_rest called while nodes is empty raises NoNodesAvailable,
\* whatever the policy, and leaves the cursor, both node lists and the
\* routing table unchanged.
C6_GetRestEmpty ==
    [][(call'.op = "get_rest" /\ nodes = <<>>) =>
           /\ call'.exc = "NoNodesAvailable"
           /\ UNCHANGED <<rr_pos, nodes, offline_nodes, nodes_by_region>>]_vars

\* get_rest failed under round-robin after the cursor had moved and the
\* routing table had been filled
C6_Witness ==
    /\ call.op = "get_rest"
    /\ call.exc = "NoNodesAvailable"
    /\ round_robin
    /\ rr_pos > 0
    /\ nodes_by_region["eu-west"] # None

\* C7 (SpecSessions): get_by_region called while nodes is empty signals
\* NoNodesAvailable, for every region key.
C7_RegionEmpty ==
    (call.op = "get_by_region" /\ nodes = <<>>) => call.exc = "NoNodesAvailable"

\* C8 (Spec): on_node_ready of a node of offline_nodes leaves it in nodes
\* and not in offline_nodes, with its signal and the cluster signal set and
\* every one of its regions routed to it.
C8_PromoteEffect ==
    [][\A n \in NodeIds :
          (call'.op = "on_node_ready" /\ call'.arg = n /\ InList(n, offline_nodes)) =>
              /\ InList(n, nodes')
              /\ ~InList(n, offline_nodes')
              /\ node_ready'[n]
              /\ ready'
              /\ \A r \in regions[n] : nodes_by_region'[r] = n]_vars

\* a promotion that took over a region another online node serves
C8_Witness ==
    /\ call.op = "on_node_ready"
    /\ events = <<NodeReadyEvent(call.arg)>>
    /\ \E m \in NodeIds :
          /\ m # call.arg
          /\ InList(m, nodes)
          /\ regions[m] \cap regions[call.arg] # {}

\* C9 (Spec): on_node_ready of a node that is not in offline_nodes and
\* on_node_disabled of a node that is not in nodes change neither list, nor
\* the routing table, the cursor or a readiness signal, and create no
\* event task.
C9_NoOps ==
    [][(\/ call'.op = "on_node_ready" /\ ~InList(call'.arg, offline_nodes)
        \/ call'.op = "on_node_disabled" /\ ~InList(call'.arg, nodes)) =>
           UNCHANGED <<nodes, offline_nodes, nodes_by_region, rr_pos, ready,
                       node_ready, events>>]_vars

\* on_node_ready was called on an online node whose region another node
\* had taken over, and created no event task
C9_Witness ==
    /\ call.op = "on_node_ready"
    /\ InList(call.arg, nodes)
    /\ events = <<>>
    /\ \E r \in regions[call.arg] : nodes_by_region[r] # call.arg

\* C10 (Spec): in every reachable state the cluster signal is set iff nodes
\* is not empty, and each node's signal is set iff the node is in nodes.
C10_ReadySignals ==
    /\ ready <=> nodes # <<>>
    /\ \A n \in NodeIds : node_ready[n] <=> InList(n, nodes)

\* the last online node, which the routing table still names, was demoted
C10_Witness ==
    /\ call.op = "on_node_disabled"
    /\ InList(call.arg, offline_nodes)
    /\ \E r \in DISCORD_REGIONS : nodes_by_region[r] = call.arg
    /\ nodes = <<>>
    /\ ~ready

\* C11 (Spec): when on_node_disabled demotes a node and another node stays
\* online, every region routed to the demoted node before the call is routed
\* to nodes[0] after it.
C11_RepointAll ==
    [][(/\ call'.op = "on_node_disabled"
        /\ InList(call'.arg, nodes)
        /\ nodes' # <<>>) =>
           \A r \in DISCORD_REGIONS :
               nodes_by_region[r] = call'.arg => nodes_by_region'[r] = nodes'[1]]_vars

\* C12 (Spec): demoting the only online node empties nodes, clears the
\* cluster signal and leaves every routing entry as it was.
C12_LastNodeKeepsRoutes ==
    [][(call'.op = "on_node_disabled" /\ nodes = <<call'.arg>>) =>
           /\ nodes' = <<>>
           /\ ~ready'
           /\ nodes_by_region' = nodes_by_region]_vars

\* the only online node was demoted and its regions still name it
C12_Witness ==
    /\ call.op = "on_node_disabled"
    /\ nodes = <<>>
    /\ ~ready
    /\ InList(call.arg, offline_nodes)
    /\ \A r \in regions[call.arg] : nodes_by_region[r] = call.arg
    /\ Len(offline_nodes) >= 2

\* C13 (SpecRR): with round-robin disabled every get_rest call on a stable
\* non-empty online list returns nodes[default_node_index] when the index is
\* below len(nodes), otherwise nodes[0], and the cursor stays as it was.
C13_FixedDefault ==
    ~round_robin =>
        /\ \A i \in 1..Len(picks) :
              picks[i] = IF default_node_index < Len(nodes)
                         THEN nodes[default_node_index + 1] ELSE nodes[1]
        /\ rr_pos = 0

\* three calls returned the node at a default index other than 0
C13_Witness ==
    /\ ~round_robin
    /\ Len(picks) >= 3
    /\ default_node_index > 0
    /\ default_node_index < Len(nodes)
    /\ picks[3] # nodes[1]

C17_KeptHooksOnce ==
    (call.op = "hook_done" /\ dp.pc = "idle") =>
        /\ \A h \in kept : Count(h, seen) = 1
        /\ \A a, b \in kept :
              (InList(a, seen) /\ InList(b, seen)
                 /\ IndexOf(hooks, a) < IndexOf(hooks, b)) =>
                    IndexOf(seen, a) < IndexOf(seen, b)

\* C18 (Spec): every on_node_ready call that moves a node online creates the
\* task that dispatches NodeReady(node), and every on_node_disabled call
\* that moves a node offline creates the task that dispatches
\* NodeDisabled(node).
C18_TransitionNotified ==
    [][/\ (call'.op = "on_node_ready" /\ InList(call'.arg, offline_nodes)) =>
              events' = Append(events, NodeReadyEvent(call'.arg))
       /\ (call'.op = "on_node_disabled" /\ InList(call'.arg, nodes)) =>
              events' = Append(events, NodeDisabledEvent(call'.arg))]_vars

\* C14 (SpecMigrate): when the failover of the demoted node A to the online
\* node B has run to completion, A holds no session, every session A held
\* is in B's map under its guild and names B as its node; failover called
\* on a playing session voice teardown, connect, insert of its track at the
\* front of the queue, play and seek to its position, in this order, and on
\* an idle session the teardown only.
C14_MigrationComplete ==
    (call.op = "failover_resume" /\ Running = {}) =>
        LET A == call.arg
            B == CHOOSE n \in Created : n # A
        IN  /\ \A g \in GuildIds : players[A][g] = None /\ players[B][g] = Held(g)
            /\ \A p \in CreatedPlayers :
                  /\ pnode[p] = B
                  /\ plog[p] = IF playing[p]
                               THEN <<Op("voice_state", None),
                                      Op("connect", None),
                                      Op("insert", previous[p]),
                                      Op("play", None),
                                      Op("seek", prev_position[p])>>
                               ELSE <<Op("voice_state", None)>>

\* a failover that migrated a playing and an idle session has completed
C14_Witness ==
    /\ call.op = "failover_resume"
    /\ Running = {}
    /\ playing[1] /\ ~playing[2]
    /\ prev_position[1] > 0
    /\ Len(plog[1]) = 5
    /\ Len(plog[2]) = 1
    /\ pnode[1] = 2 /\ pnode[2] = 2

\* C15 (SpecFailover): when an awaited call of a failover raises, every
\* session of the failing node the failover had not reached yet is
\* nevertheless owned by the target node once the failover has ended.
C15_FaultIsolated ==
    [][\A t \in TaskIds :
          (call'.op = "failover_fault" /\ t \in Running /\ fo'[t].pc = "idle") =>
              \A i \in 1..Len(fo[t].keys) :
                 LET p == players'[fo[t].new_node][fo[t].keys[i]]
                 IN  p # None /\ pnode'[p] = fo[t].new_node]_vars

\* C19 (SpecTwice): no manage_failover coroutine fails on a key of its
\* snapshot, also when another failover of the same node runs while it is
\* suspended.
C19_SnapshotSurvives ==
    call.op \in {"manage_failover", "failover_resume"} => call.exc = ""

\* C20 (SpecFailover): whenever a failover reassigns a session, its target
\* node is in the online list and is not the failing node.
C20_TargetOnline ==
    [][\A t \in TaskIds :
          (fo'[t].pc = "voice_state" /\ fo'[t] # fo[t]) =>
              /\ InList(fo'[t].new_node, nodes')
              /\ fo'[t].new_node # fo'[t].node]_vars

====
